---- MODULE Spec2Model ----
(***************************************************************************)
(* Content type gating (openedx/features/content_type_gating/partitions.py) *)
(*                                                                         *)
(* Three operations are modelled: the partition factory                    *)
(* create_content_gating_partition (with the scheme's                      *)
(* create_user_partition), the group resolution rule get_group_for_user,   *)
(* and the renderer access_denied_fragment.                                *)
(*                                                                         *)
(* Python values are records tagged by their type in field t, so that      *)
(* None, '' and objects can be told apart as the code tells them apart.    *)
(* Text is a sequence of tokens; str.format is concatenation.              *)
(***************************************************************************)
EXTENDS Integers, Sequences, FiniteSets, TLC

VARIABLES
    course_id,          \* course.id
    user_partitions,    \* course.user_partitions
    registry,           \* names of the registered partition schemes
    pc,                 \* "idle", or "returned" while the caller holds a result
    op, args,           \* the operation called and its inputs
    ret, log            \* what it returned (or raised) and what it logged

vars == <<course_id, user_partitions, registry, pc, op, args, ret, log>>

----------------------------------------------------------------------------
(* Python values *)

None == [t |-> "NoneType"]

Empty == [t |-> "str", v |-> << >>]

Str(tok) == [t |-> "str", v |-> <<tok>>]

Bool(b) == [t |-> "bool", v |-> b]

Raise(exc) == [t |-> "raise", exc |-> exc]

\* Python truth value: None, '' and False are false, every object is true.
Truthy(x) ==
    CASE x.t = "NoneType" -> FALSE
      [] x.t = "str" -> x.v # << >>
      [] x.t = "bool" -> x.v
      [] OTHER -> TRUE

\* needle in haystack, for text made of tokens
Contains(text, needle) == \E i \in DOMAIN text.v : text.v[i] = needle

\* dict.get(key, default)
DictGet(d, key, default) == IF key \in DOMAIN d THEN d[key] ELSE default

----------------------------------------------------------------------------
(* Bounds of the model *)

MaxModes == 2

MaxPartitions == 2

MaxAgentLen == 2

----------------------------------------------------------------------------
(* Module constants *)

CONTENT_GATING_PARTITION_ID == 51

COURSE_MODE_AUDIT == Str("audit")

VERIFIED == Str("verified")

SCHEME_NAME == "content_type_gate"

MOBILE_AGENT == "org.edx.mobile"

Group(id, name) == [t |-> "Group", id |-> id, name |-> name]

LIMITED_ACCESS == Group(1, "Limited-access Users")

FULL_ACCESS == Group(2, "Full-access Users")

----------------------------------------------------------------------------
(* The collaborators: course modes, enrollments, masquerade *)

Users == {"staff", "learner"}

Mode(slug, sku, min_price, expired) ==
    [t |-> "Mode", slug |-> Str(slug), sku |-> sku, min_price |-> min_price,
     expired |-> expired]

\* The modes a course may be configured with: free modes, and a verified
\* mode with or without a SKU, current or expired.
ModePool ==
    {Mode("audit", None, 0, FALSE), Mode("honor", None, 0, FALSE)}
    \cup {Mode("verified", sku, 49, e) :
            sku \in {None, Empty, Str("SKU-V")}, e \in BOOLEAN}

\* A course's modes: at least one (a course without configured modes has
\* the default audit mode), at most one mode per slug.
CourseModes ==
    {S \in SUBSET ModePool :
        /\ 1 <= Cardinality(S) /\ Cardinality(S) <= MaxModes
        /\ \A m1, m2 \in S : m1.slug = m2.slug => m1 = m2}

\* CourseMode.modes_for_course(course_key, include_expired=True,
\* only_selectable=False): every mode of the course.
modes_for_course(course_modes) == course_modes

\* CourseMode.modes_for_course_dict(course_key): the unexpired modes by slug.
modes_for_course_dict(course_modes) ==
    [slug \in {m.slug : m \in {x \in course_modes : ~x.expired}} |->
        CHOOSE m \in course_modes : m.slug = slug /\ ~m.expired]

\* CourseMode.has_verified_mode(modes)
has_verified_mode(modes) == VERIFIED \in DOMAIN modes

\* CourseMode.mode_for_course(course_key, mode_slug, modes): the mode of
\* that slug in modes, None when there is none.
mode_for_course(mode_slug, modes) ==
    IF \E m \in modes : m.slug = mode_slug
    THEN CHOOSE m \in modes : m.slug = mode_slug
    ELSE None

\* CourseEnrollment.enrollment_mode_for_user returns (mode, is_active),
\* (None, None) for a user without enrollment.
Enrollment(mode, is_active) == [mode |-> mode, is_active |-> is_active]

Enrollments ==
    {Enrollment(None, None)}
    \cup {Enrollment(Str(s), Bool(TRUE)) : s \in {"audit", "verified", "honor"}}
    \cup {Enrollment(Str("audit"), Bool(FALSE))}

enrollment_mode_for_user(enrollments, user) == enrollments[user]

\* What get_course_masquerade returns: None or the masquerade settings.
CourseMasquerade == [t |-> "CourseMasquerade"]

----------------------------------------------------------------------------
(* ContentTypeGatingPartitionScheme.get_group_for_user *)

Result(value, entries) == [ret |-> value, log |-> entries]

GatingWorlds ==
    [course_masquerade : {None, CourseMasquerade},
     specific_student : BOOLEAN,
     masquerading_user_group : {None, LIMITED_ACCESS, FULL_ACCESS},
     flag : BOOLEAN,
     course_modes : CourseModes,
     enrollments : [Users -> Enrollments]]

\* Mutants of get_group_for_user: what a plausible slip in the rule gives.

\* the feature flag is consulted before the masquerade override
get_group_for_user_flag_first(user, w) ==
    IF ~w.flag
    THEN Result(FULL_ACCESS, << >>)
    ELSE IF Truthy(w.course_masquerade) /\ ~w.specific_student
    THEN Result(w.masquerading_user_group, << >>)
    ELSE LET e == enrollment_mode_for_user(w.enrollments, user) IN
         IF /\ has_verified_mode(modes_for_course_dict(w.course_modes))
            /\ Truthy(e.mode) /\ Truthy(e.is_active)
            /\ mode_for_course(e.mode, modes_for_course(w.course_modes)) # None
            /\ e.mode = COURSE_MODE_AUDIT
         THEN Result(LIMITED_ACCESS, << >>)
         ELSE Result(FULL_ACCESS, << >>)

\* the feature flag is not consulted at all
get_group_for_user_no_flag(user, w) ==
    IF Truthy(w.course_masquerade) /\ ~w.specific_student
    THEN Result(w.masquerading_user_group, << >>)
    ELSE LET e == enrollment_mode_for_user(w.enrollments, user) IN
         IF /\ has_verified_mode(modes_for_course_dict(w.course_modes))
            /\ Truthy(e.mode) /\ Truthy(e.is_active)
            /\ mode_for_course(e.mode, modes_for_course(w.course_modes)) # None
            /\ e.mode = COURSE_MODE_AUDIT
         THEN Result(LIMITED_ACCESS, << >>)
         ELSE Result(FULL_ACCESS, << >>)

\* the audit comparison is inverted
get_group_for_user_audit_full(user, w) ==
    IF Truthy(w.course_masquerade) /\ ~w.specific_student
    THEN Result(w.masquerading_user_group, << >>)
    ELSE LET e == enrollment_mode_for_user(w.enrollments, user) IN
         IF /\ w.flag
            /\ has_verified_mode(modes_for_course_dict(w.course_modes))
            /\ Truthy(e.mode) /\ Truthy(e.is_active)
            /\ mode_for_course(e.mode, modes_for_course(w.course_modes)) # None
            /\ e.mode # COURSE_MODE_AUDIT
         THEN Result(LIMITED_ACCESS, << >>)
         ELSE Result(FULL_ACCESS, << >>)

\* the unknown-mode check is missing: no error is logged, audit is gated
get_group_for_user_no_unknown_check(user, w) ==
    IF Truthy(w.course_masquerade) /\ ~w.specific_student
    THEN Result(w.masquerading_user_group, << >>)
    ELSE LET e == enrollment_mode_for_user(w.enrollments, user) IN
         IF /\ w.flag
            /\ has_verified_mode(modes_for_course_dict(w.course_modes))
            /\ Truthy(e.mode) /\ Truthy(e.is_active)
            /\ e.mode = COURSE_MODE_AUDIT
         THEN Result(LIMITED_ACCESS, << >>)
         ELSE Result(FULL_ACCESS, << >>)

\* the enrollment looked up is the staff user's, not the given user's
get_group_for_user_staff_enrollment(user, w) ==
    IF Truthy(w.course_masquerade) /\ ~w.specific_student
    THEN Result(w.masquerading_user_group, << >>)
    ELSE LET e == enrollment_mode_for_user(w.enrollments, "staff") IN
         IF /\ w.flag
            /\ has_verified_mode(modes_for_course_dict(w.course_modes))
            /\ Truthy(e.mode) /\ Truthy(e.is_active)
            /\ mode_for_course(e.mode, modes_for_course(w.course_modes)) # None
            /\ e.mode = COURSE_MODE_AUDIT
         THEN Result(LIMITED_ACCESS, << >>)
         ELSE Result(FULL_ACCESS, << >>)

get_group_for_user(user, w) ==
    IF Truthy(w.course_masquerade) /\ ~w.specific_student
    THEN Result(w.masquerading_user_group, << >>)
    ELSE IF ~w.flag
    THEN Result(FULL_ACCESS, << >>)
    ELSE LET modes == modes_for_course_dict(w.course_modes) IN
         IF ~has_verified_mode(modes)
         THEN Result(FULL_ACCESS, << >>)
         ELSE LET e == enrollment_mode_for_user(w.enrollments, user)
                  mode_slug == e.mode
                  is_active == e.is_active
              IN IF Truthy(mode_slug) /\ Truthy(is_active)
                 THEN LET course_mode ==
                              mode_for_course(mode_slug,
                                              modes_for_course(w.course_modes))
                      IN IF course_mode = None
                         THEN Result(FULL_ACCESS,
                                     <<[level |-> "error", user |-> user,
                                        mode |-> mode_slug]>>)
                         ELSE IF mode_slug = COURSE_MODE_AUDIT
                         THEN Result(LIMITED_ACCESS, << >>)
                         ELSE Result(FULL_ACCESS, << >>)
                 ELSE Result(FULL_ACCESS, << >>)

GetGroupForUser ==
    /\ pc = "idle"
    /\ \E user \in Users, w \in GatingWorlds :
          LET r == get_group_for_user(user, w) IN
          /\ op' = "get_group_for_user"
          /\ args' = [user |-> user, world |-> w]
          /\ ret' = r.ret
          /\ log' = r.log
    /\ pc' = "returned"
    /\ UNCHANGED <<course_id, user_partitions, registry>>

----------------------------------------------------------------------------
(* The partition factory *)

CourseKey(org, course, run) ==
    [t |-> "CourseKey", org |-> org, course |-> course, run |-> run]

CourseKeys == {CourseKey("edX", "DemoX", "2018"), CourseKey("MITx", "6.002x", "2019")}

\* ugettext_lazy: the message, translated when it is turned into text
Lazy(msgid) == [t |-> "lazy", msgid |-> msgid]

\* unicode(x)
Unicode(x) ==
    CASE x.t = "lazy" -> Str(x.msgid)
      [] x.t = "CourseKey" ->
            [t |-> "str", v |-> <<"course-v1:", x.org, "+", x.course, "+", x.run>>]
      [] OTHER -> x

\* UserPartition(id, name, description, groups, scheme, parameters, active)
UserPartition(cls, id, name, description, groups, scheme, parameters, active) ==
    [t |-> cls, id |-> id, name |-> name, description |-> description,
     groups |-> groups, scheme |-> scheme, parameters |-> parameters,
     active |-> active]

\* The partitions a course holds from elsewhere; partition ids are unique
\* within a course.
OtherIds == {50, CONTENT_GATING_PARTITION_ID, 100}

OtherPartition(id) ==
    UserPartition("UserPartition", id, Str(IF id = 50 THEN "Enrollment Track Groups"
                                           ELSE IF id = 100 THEN "Cohorts"
                                           ELSE "Experiment"), Empty,
                  <<Group(id + 1, "A"), Group(id + 2, "B")>>,
                  IF id = 50 THEN "enrollment_track" ELSE "random",
                  None, TRUE)

InitialPartitions ==
    {ps \in UNION {[1..n -> {OtherPartition(i) : i \in OtherIds}] : n \in 0..MaxPartitions} :
        \A i, j \in DOMAIN ps : ps[i].id = ps[j].id => i = j}

\* create_user_partition honours the caller's groups and active flag
create_user_partition_as_asked(id, name, description, groups, parameters, active) ==
    UserPartition("ContentTypeGatingPartition", id, Unicode(name),
                  Unicode(description),
                  IF groups = None THEN <<LIMITED_ACCESS, FULL_ACCESS>> ELSE groups.v,
                  SCHEME_NAME, parameters, active)

\* ContentTypeGatingPartitionScheme.create_user_partition
create_user_partition(id, name, description, groups, parameters, active) ==
    UserPartition("ContentTypeGatingPartition", id, Unicode(name),
                  Unicode(description), <<LIMITED_ACCESS, FULL_ACCESS>>,
                  SCHEME_NAME, parameters, TRUE)

\* _get_partition_from_id: the first partition of that id, None without one
_get_partition_from_id(partitions, user_partition_id) ==
    IF \E i \in DOMAIN partitions : partitions[i].id = user_partition_id
    THEN partitions[CHOOSE i \in DOMAIN partitions :
                        /\ partitions[i].id = user_partition_id
                        /\ \A j \in 1..(i - 1) : partitions[j].id # user_partition_id]
    ELSE None

\* what a call gives: its result, its log, and the course's partitions after it
FactoryResult(value, entries, partitions) ==
    [ret |-> value, log |-> entries, partitions |-> partitions]

NewGatingPartition(course) ==
    create_user_partition(CONTENT_GATING_PARTITION_ID,
                          Lazy("Feature-based Enrollments"),
                          Lazy("Partition for segmenting users by access to gated content types"),
                          None,
                          [course_id |-> Unicode(course.id)],
                          TRUE)

\* the scheme lookup's failure is not handled: the partition is built anyway
create_content_gating_partition_no_scheme_check(course, reg) ==
    IF CONTENT_GATING_PARTITION_ID \in
           {course.user_partitions[i].id : i \in DOMAIN course.user_partitions}
    THEN FactoryResult(None, <<[level |-> "warning", what |-> "id assigned"]>>,
                       course.user_partitions)
    ELSE FactoryResult(NewGatingPartition(course), << >>, course.user_partitions)

\* the collision with a partition holding the id is not detected
create_content_gating_partition_no_id_check(course, reg) ==
    IF SCHEME_NAME \notin reg
    THEN FactoryResult(None, <<[level |-> "warning", what |-> "no scheme"]>>,
                       course.user_partitions)
    ELSE FactoryResult(NewGatingPartition(course), << >>, course.user_partitions)

\* create_content_gating_partition(course); reg is the scheme registry that
\* UserPartition.get_scheme reads
create_content_gating_partition(course, reg) ==
    IF SCHEME_NAME \notin reg
    THEN FactoryResult(None, <<[level |-> "warning", what |-> "no scheme"]>>,
                       course.user_partitions)
    ELSE LET used_ids == {course.user_partitions[i].id :
                              i \in DOMAIN course.user_partitions}
         IN IF CONTENT_GATING_PARTITION_ID \in used_ids
            THEN FactoryResult(
                     None,
                     <<[level |-> "warning", what |-> "id assigned",
                        id |-> CONTENT_GATING_PARTITION_ID,
                        partition |-> _get_partition_from_id(
                                          course.user_partitions,
                                          CONTENT_GATING_PARTITION_ID).name,
                        course |-> Unicode(course.id)]>>,
                     course.user_partitions)
            ELSE FactoryResult(NewGatingPartition(course), << >>,
                               course.user_partitions)

CreateContentGatingPartition ==
    /\ pc = "idle"
    /\ LET course == [id |-> course_id, user_partitions |-> user_partitions]
           r == create_content_gating_partition(course, registry)
       IN /\ op' = "create_content_gating_partition"
          /\ args' = [course |-> course]
          /\ ret' = r.ret
          /\ log' = r.log
          /\ user_partitions' = r.partitions
    /\ pc' = "returned"
    /\ UNCHANGED <<course_id, registry>>

\* The caller adds the partition it was given to the course's partitions.
CallerAdd ==
    /\ pc = "returned"
    /\ op = "create_content_gating_partition"
    /\ ret # None
    /\ user_partitions' = Append(user_partitions, ret)
    /\ pc' = "idle"
    /\ op' = "none"
    /\ args' = [none |-> TRUE]
    /\ ret' = None
    /\ log' = << >>
    /\ UNCHANGED <<course_id, registry>>

\* Group lists a caller may pass to create_user_partition
GroupLists ==
    {None,
     [t |-> "list", v |-> << >>],
     [t |-> "list", v |-> <<Group(7, "Staff")>>],
     [t |-> "list", v |-> <<FULL_ACCESS, LIMITED_ACCESS>>]}

CreateUserPartition ==
    /\ pc = "idle"
    /\ \E id \in OtherIds, name \in {Str("Gate"), Lazy("Feature-based Enrollments")},
          groups \in GroupLists,
          parameters \in {None, [course_id |-> Unicode(course_id)]},
          active \in BOOLEAN :
          /\ op' = "create_user_partition"
          /\ args' = [id |-> id, name |-> name, groups |-> groups,
                      parameters |-> parameters, active |-> active]
          /\ ret' = create_user_partition(id, name, Lazy("description"), groups,
                                          parameters, active)
          /\ log' = << >>
    /\ pc' = "returned"
    /\ UNCHANGED <<course_id, user_partitions, registry>>

----------------------------------------------------------------------------
(* ContentTypeGatingPartition.access_denied_fragment *)

\* EcommerceService.get_checkout_page_url(sku)
get_checkout_page_url(sku) ==
    [t |-> "str", v |-> <<"/basket/add/?sku=">> \o sku.v]

\* The User-Agent headers a request may carry
AgentTokens == {"Mozilla/5.0", "edX/", MOBILE_AGENT}

Agents ==
    {[t |-> "str", v |-> a] :
        a \in UNION {[1..n -> AgentTokens] : n \in 0..MaxAgentLen}}

\* crum.get_current_request(): None outside a request
Requests ==
    {None}
    \cup {[t |-> "HttpRequest", META |-> [REMOTE_ADDR |-> Str("10.0.0.1")]]}
    \cup {[t |-> "HttpRequest",
           META |-> [REMOTE_ADDR |-> Str("10.0.0.1"), HTTP_USER_AGENT |-> a]] :
            a \in Agents}

FragmentWorlds ==
    [ecommerce_enabled : BOOLEAN,
     course_modes : CourseModes,
     request : Requests]

\* the upsell template, formatted
Upsell(ecommerce_checkout_link, min_price) ==
    [t |-> "str",
     v |-> <<"<span class=certDIV_1><a href=">> \o ecommerce_checkout_link.v
           \o <<" class=certA_2>Upgrade to unlock ($", ToString(min_price),
                ")</a></span>">>]

\* Fragment(content) with the paywall template formatted, and its css added
PaywallFragment(upsell) ==
    [t |-> "Fragment",
     content |-> <<"<div class=.content-paywall>Verified Track Access">>
                 \o upsell.v \o <<"<img></div>">>,
     css |-> ".content-paywall"]

\* the checkout link is built whenever the mode has a SKU
access_denied_fragment_link_always(w) ==
    LET modes == modes_for_course_dict(w.course_modes)
        verified_mode == DictGet(modes, VERIFIED, Empty)
    IN IF verified_mode.t # "Mode" \/ w.request = None
       THEN Raise("AttributeError")
       ELSE IF Contains(DictGet(w.request.META, "HTTP_USER_AGENT", Empty),
                        MOBILE_AGENT)
       THEN PaywallFragment(Empty)
       ELSE PaywallFragment(
                Upsell(IF Truthy(verified_mode.sku)
                       THEN get_checkout_page_url(verified_mode.sku)
                       ELSE Empty,
                       verified_mode.min_price))

\* access_denied_fragment(block, user, user_group, allowed_groups); w holds
\* what the collaborators give for the block's course, the user and the
\* current request
access_denied_fragment(w) ==
    LET ecommerce_checkout == w.ecommerce_enabled
        modes == modes_for_course_dict(w.course_modes)
        verified_mode == DictGet(modes, VERIFIED, Empty)
    IN \* `ecommerce_checkout and verified_mode.sku`: '' has no attribute sku
       IF ecommerce_checkout /\ verified_mode.t # "Mode"
       THEN Raise("AttributeError")
       ELSE LET ecommerce_checkout_link ==
                    IF ecommerce_checkout /\ Truthy(verified_mode.sku)
                    THEN get_checkout_page_url(verified_mode.sku)
                    ELSE Empty
            IN IF verified_mode = None
               THEN None
               \* request.META of no request
               ELSE IF w.request = None
               THEN Raise("AttributeError")
               ELSE IF Contains(DictGet(w.request.META, "HTTP_USER_AGENT", Empty),
                                MOBILE_AGENT)
               THEN PaywallFragment(Empty)
               \* verified_mode.min_price: '' has no attribute min_price
               ELSE IF verified_mode.t # "Mode"
               THEN Raise("AttributeError")
               ELSE PaywallFragment(Upsell(ecommerce_checkout_link,
                                           verified_mode.min_price))

AccessDeniedFragment ==
    /\ pc = "idle"
    /\ \E w \in FragmentWorlds :
          /\ op' = "access_denied_fragment"
          /\ args' = [world |-> w]
          /\ ret' = access_denied_fragment(w)
          /\ log' = << >>
    /\ pc' = "returned"
    /\ UNCHANGED <<course_id, user_partitions, registry>>

----------------------------------------------------------------------------

Init ==
    /\ course_id \in CourseKeys
    /\ user_partitions \in InitialPartitions
    /\ registry \in {{}, {SCHEME_NAME}}
    /\ pc = "idle"
    /\ op = "none"
    /\ args = [none |-> TRUE]
    /\ ret = None
    /\ log = << >>

\* The caller takes the result; the next call starts afresh.
Return ==
    /\ pc = "returned"
    /\ pc' = "idle"
    /\ op' = "none"
    /\ args' = [none |-> TRUE]
    /\ ret' = None
    /\ log' = << >>
    /\ UNCHANGED <<course_id, user_partitions, registry>>

GatingNext == GetGroupForUser \/ Return

GatingSpec == Init /\ [][GatingNext]_vars

FactoryNext ==
    \/ CreateContentGatingPartition
    \/ CallerAdd
    \/ CreateUserPartition
    \/ Return

FactorySpec == Init /\ [][FactoryNext]_vars

FragmentNext == AccessDeniedFragment \/ Return

FragmentSpec == Init /\ [][FragmentNext]_vars

Next ==
    \/ GetGroupForUser
    \/ CreateContentGatingPartition
    \/ CallerAdd
    \/ CreateUserPartition
    \/ AccessDeniedFragment
    \/ Return

Spec == Init /\ [][Next]_vars

----------------------------------------------------------------------------
(* Claims about get_group_for_user *)

GroupCalled == pc = "returned" /\ op = "get_group_for_user"

\* masquerading, and not as one specific student
GenericMasquerade ==
    /\ args.world.course_masquerade # None
    /\ ~args.world.specific_student

\* the course has a verified mode on offer (what has_verified_mode sees)
VerifiedOffered ==
    \E m \in args.world.course_modes : m.slug = Str("verified") /\ ~m.expired

UserEnrollment == args.world.enrollments[args.user]

ActivelyEnrolled ==
    /\ UserEnrollment.mode \notin {None, Empty}
    /\ UserEnrollment.is_active = Bool(TRUE)

SlugResolves == \E m \in args.world.course_modes : m.slug = UserEnrollment.mode

ErrorLogged ==
    /\ Len(log) = 1
    /\ log[1].level = "error"
    /\ log[1].user = args.user
    /\ log[1].mode = UserEnrollment.mode

\* C1 as stated: with the feature flag disabled the result is FULL_ACCESS,
\* whatever the other inputs of the call are.
C1_FlagOffAlwaysFull ==
    (GroupCalled /\ ~args.world.flag) => ret = FULL_ACCESS

\* C1 amended: with the feature flag disabled and outside generic-group
\* masquerade the result is FULL_ACCESS, whatever the enrollment is.
C1_FlagOffFullOutsideMasquerade ==
    (GroupCalled /\ ~args.world.flag /\ ~GenericMasquerade)
        => (ret = FULL_ACCESS /\ log = << >>)

\* C1 witness: flag off, an active audit enrollment that would be gated.
C1_Witness ==
    /\ GroupCalled /\ ~args.world.flag /\ ~GenericMasquerade
    /\ VerifiedOffered /\ ActivelyEnrolled /\ SlugResolves
    /\ UserEnrollment.mode = Str("audit")
    /\ ret = FULL_ACCESS

\* C2: in generic-group masquerade the result is exactly what
\* get_masquerading_user_group gives, whatever the flag, modes and
\* enrollment are.
C2_MasqueradePassThrough ==
    (GroupCalled /\ GenericMasquerade)
        => (ret = args.world.masquerading_user_group /\ log = << >>)

\* C2 witness: the masquerade group is LIMITED_ACCESS although the flag is
\* off and the user is not enrolled.
C2_Witness ==
    /\ GroupCalled /\ GenericMasquerade
    /\ ~args.world.flag
    /\ UserEnrollment = Enrollment(None, None)
    /\ args.world.masquerading_user_group = LIMITED_ACCESS
    /\ ret = LIMITED_ACCESS

\* C3 as stated: an active audit enrollment with the flag enabled and a
\* verified mode present gives LIMITED_ACCESS.
C3_AuditLimited ==
    (/\ GroupCalled /\ args.world.flag /\ VerifiedOffered
     /\ UserEnrollment = Enrollment(Str("audit"), Bool(TRUE)))
        => ret = LIMITED_ACCESS

\* C3 amended: an active audit enrollment with the flag enabled and a
\* verified mode present gives LIMITED_ACCESS, provided the requester is
\* not in generic-group masquerade and audit is one of the course's modes.
C3_AuditLimitedWhenResolved ==
    (/\ GroupCalled /\ args.world.flag /\ VerifiedOffered
     /\ UserEnrollment = Enrollment(Str("audit"), Bool(TRUE))
     /\ ~GenericMasquerade /\ SlugResolves)
        => ret = LIMITED_ACCESS

C3_Witness ==
    /\ GroupCalled /\ args.world.flag /\ VerifiedOffered
    /\ UserEnrollment = Enrollment(Str("audit"), Bool(TRUE))
    /\ ~GenericMasquerade /\ SlugResolves
    /\ args.world.course_masquerade = None
    /\ ret = LIMITED_ACCESS

\* C4 as stated: an active enrollment whose slug resolves to no mode of the
\* course logs an error and gives FULL_ACCESS.
C4_UnknownModeLogsAndFull ==
    (GroupCalled /\ ActivelyEnrolled /\ ~SlugResolves)
        => (ret = FULL_ACCESS /\ ErrorLogged)

\* C4 amended: when the rule reaches the enrollment lookup (no generic-group
\* masquerade, flag enabled, verified mode present), an active enrollment
\* whose slug resolves to no mode of the course logs an error and gives
\* FULL_ACCESS as a normal result, also for the audit slug.
C4_UnknownModeAtLookup ==
    (/\ GroupCalled /\ ActivelyEnrolled /\ ~SlugResolves
     /\ ~GenericMasquerade /\ args.world.flag /\ VerifiedOffered)
        => (ret = FULL_ACCESS /\ ErrorLogged)

\* C4 witness: the unresolved slug is the audit slug.
C4_Witness ==
    /\ GroupCalled /\ ActivelyEnrolled /\ ~SlugResolves
    /\ ~GenericMasquerade /\ args.world.flag /\ VerifiedOffered
    /\ UserEnrollment.mode = Str("audit")
    /\ ret = FULL_ACCESS /\ ErrorLogged

\* C10: outside generic-group masquerade the result is LIMITED_ACCESS
\* exactly when the flag is enabled, a verified mode is present, the given
\* user's enrollment is active with a slug that resolves, and the slug is
\* audit; otherwise it is FULL_ACCESS.
C10_LimitedIff ==
    (GroupCalled /\ ~GenericMasquerade)
        => /\ ret \in {LIMITED_ACCESS, FULL_ACCESS}
           /\ ret = LIMITED_ACCESS <=>
                (/\ args.world.flag
                 /\ VerifiedOffered
                 /\ ActivelyEnrolled
                 /\ SlugResolves
                 /\ UserEnrollment.mode = Str("audit"))

\* C10 witness: masquerade as a specific student (the learner), whose audit
\* enrollment decides, not the staff user's verified enrollment.
C10_Witness ==
    /\ GroupCalled
    /\ args.world.course_masquerade # None /\ args.world.specific_student
    /\ args.user = "learner"
    /\ args.world.enrollments["learner"] = Enrollment(Str("audit"), Bool(TRUE))
    /\ args.world.enrollments["staff"] = Enrollment(Str("verified"), Bool(TRUE))
    /\ ret = LIMITED_ACCESS

----------------------------------------------------------------------------
(* Claims about the partition factory *)

FactoryCalled == pc = "returned" /\ op = "create_content_gating_partition"

IdsOf(partitions) == {partitions[i].id : i \in DOMAIN partitions}

GatingIdUsed == 51 \in IdsOf(args.course.user_partitions)

CourseIdText ==
    [t |-> "str",
     v |-> <<"course-v1:", args.course.id.org, "+", args.course.id.course,
             "+", args.course.id.run>>]

\* C5: with the scheme registered the factory returns nothing and logs a
\* warning when ID 51 is used by a partition of the course, and otherwise
\* returns a partition with ID 51, exactly the groups LIMITED_ACCESS and
\* FULL_ACCESS, and parameters holding the course identifier; without the
\* scheme it returns nothing whatever the partitions are.
C5_FactoryResult ==
    FactoryCalled =>
        IF "content_type_gate" \notin registry
        THEN ret = None
        ELSE IF GatingIdUsed
        THEN /\ ret = None
             /\ Len(log) = 1 /\ log[1].level = "warning"
        ELSE /\ ret # None
             /\ ret.id = 51
             /\ ret.groups = <<LIMITED_ACCESS, FULL_ACCESS>>
             /\ ret.parameters = [course_id |-> CourseIdText]

\* C5 witness: the scheme is registered and the course's second partition
\* holds ID 51: the call is refused with a warning naming that partition.
C5_Witness ==
    /\ FactoryCalled
    /\ "content_type_gate" \in registry
    /\ Len(args.course.user_partitions) = 2
    /\ args.course.user_partitions[2].id = 51
    /\ ret = None
    /\ Len(log) = 1
    /\ log[1].partition = args.course.user_partitions[2].name

\* C6: after any sequence of factory calls whose results the caller adds, the
\* course holds at most one partition with ID 51, a partition holding ID 51
\* stays in place unchanged, and a call by itself leaves the course's
\* partitions as they were.
C6_OneGatingPartition ==
    /\ [](Cardinality({i \in DOMAIN user_partitions : user_partitions[i].id = 51}) <= 1)
    /\ [][\A i \in DOMAIN user_partitions :
              user_partitions[i].id = 51 =>
                  /\ i \in DOMAIN user_partitions'
                  /\ user_partitions'[i] = user_partitions[i]]_vars
    /\ [][(pc = "idle" /\ op' = "create_content_gating_partition")
              => user_partitions' = user_partitions]_vars

\* C6 witness: a second call after the caller added the partition of the
\* first is refused.
C6_Witness ==
    /\ FactoryCalled
    /\ ret = None
    /\ "content_type_gate" \in registry
    /\ \E i \in DOMAIN user_partitions :
          /\ user_partitions[i].id = 51
          /\ user_partitions[i].t = "ContentTypeGatingPartition"

UserPartitionCalled == pc = "returned" /\ op = "create_user_partition"

\* C7: create_user_partition builds the partition with exactly the groups
\* LIMITED_ACCESS then FULL_ACCESS, whatever group list the caller gives, and
\* with active = True, also when the caller passes active = False.
C7_FixedGroupsAlwaysActive ==
    UserPartitionCalled =>
        /\ ret.groups = <<LIMITED_ACCESS, FULL_ACCESS>>
        /\ ret.active = TRUE
        /\ ret.id = args.id

\* C7 witness: the caller passed another group list and active = False.
C7_Witness ==
    /\ UserPartitionCalled
    /\ args.groups = [t |-> "list", v |-> <<Group(7, "Staff")>>]
    /\ args.active = FALSE
    /\ ret.active = TRUE

----------------------------------------------------------------------------
(* Claims about access_denied_fragment *)

FragmentCalled == pc = "returned" /\ op = "access_denied_fragment"

OfferedVerified ==
    {m \in args.world.course_modes : m.slug = Str("verified") /\ ~m.expired}

TheVerifiedMode == CHOOSE m \in OfferedVerified : TRUE

FromMobileApp ==
    /\ "HTTP_USER_AGENT" \in DOMAIN args.world.request.META
    /\ \E i \in DOMAIN args.world.request.META.HTTP_USER_AGENT.v :
          args.world.request.META.HTTP_USER_AGENT.v[i] = "org.edx.mobile"

ExpectedLink ==
    IF /\ args.world.ecommerce_enabled
       /\ TheVerifiedMode.sku \notin {None, Empty}
    THEN <<"/basket/add/?sku=">> \o TheVerifiedMode.sku.v
    ELSE << >>

\* C8: without a verified mode for the block's course the renderer, called
\* within a request, returns nothing, and raises nothing, whether or not the
\* checkout service is enabled and whatever the user-agent is.
C8_NoVerifiedModeNoFragment ==
    (FragmentCalled /\ OfferedVerified = {} /\ args.world.request # None)
        => ret = None

\* C9: with a verified mode (and a current request to read the User-Agent
\* of) the renderer returns a fragment; the upsell is left out exactly when
\* the User-Agent contains org.edx.mobile; an upsell carries the verified
\* mode's min price and the checkout URL for its SKU when the checkout
\* service is enabled and the SKU is non-empty, an empty link otherwise.
C9_UpsellUnlessMobile ==
    (FragmentCalled /\ OfferedVerified # {} /\ args.world.request # None) =>
        /\ ret.t = "Fragment"
        /\ Len(ret.content) = 2 <=> FromMobileApp
        /\ ~FromMobileApp =>
              ret.content =
                  <<"<div class=.content-paywall>Verified Track Access",
                    "<span class=certDIV_1><a href=">>
                  \o ExpectedLink
                  \o <<" class=certA_2>Upgrade to unlock ($",
                       ToString(TheVerifiedMode.min_price),
                       ")</a></span>", "<img></div>">>

\* C9 witness: a desktop request, the checkout service enabled and a SKU:
\* the upsell links to the checkout page.
C9_Witness ==
    /\ FragmentCalled /\ OfferedVerified # {} /\ args.world.request # None
    /\ ~FromMobileApp
    /\ args.world.ecommerce_enabled
    /\ TheVerifiedMode.sku = Str("SKU-V")
    /\ ret.t = "Fragment"
    /\ \E i \in DOMAIN ret.content : ret.content[i] = "SKU-V"

====
